---- MODULE Spec2Model ----
(***************************************************************************)
(* Model of Firestore/src/cpp/util/random.cc: RandomDouble() and           *)
(* CreateAutoId(), called by several threads that share the process-wide   *)
(* arc4random entropy stream.                                              *)
(*                                                                         *)
(* Representation.  TLC integers are 32-bit signed, so a uint32_t is kept  *)
(* as two 16-bit limbs [hi, lo] (value hi * 2^16 + lo), and a double as    *)
(* [hi, lo, exp] with value (hi * 2^16 + lo) * 2^exp.  Characters are      *)
(* one-character strings; the literal's terminator is the string "NUL".    *)
(***************************************************************************)
EXTENDS Integers, Sequences, FiniteSets, TLC

\* ------------------------------------------------------------------ bounds
\* Each thread makes one call.
NumThreads == 2
MaxPreemptions == 1

Threads == 1..NumThreads

\* --------------------------------------------------------- program constants
\* One 16-bit limb of a uint32_t.
Limb == 65536

\* static const int kAutoIdLength = 20;
kAutoIdLength == 20

\* The bytes of the string literal kAutoIdAlphabet points to: 62 symbols and
\* the terminating NUL.
kAutoIdAlphabet ==
  << "A", "B", "C", "D", "E", "F", "G", "H", "I", "J", "K", "L", "M",
     "N", "O", "P", "Q", "R", "S", "T", "U", "V", "W", "X", "Y", "Z",
     "a", "b", "c", "d", "e", "f", "g", "h", "i", "j", "k", "l", "m",
     "n", "o", "p", "q", "r", "s", "t", "u", "v", "w", "x", "y", "z",
     "0", "1", "2", "3", "4", "5", "6", "7", "8", "9", "NUL" >>

\* sizeof(const char*) of the builds the library is compiled for (32-bit and
\* 64-bit targets).
PointerSizes == {4, 8}

\* 0x80000000: the divisor for a generator with a 31-bit range.
kRandMaxPlusOne == [hi |-> 32768, lo |-> 0, exp |-> 0]

\* static const double kArc4RandomMax = 0x100000000;  (2^32, exact as a double)
kArc4RandomMax == [hi |-> 65536, lo |-> 0, exp |-> 0]

\* Significand width of the type RandomDouble casts to (IEEE-754 double).
kDoubleSignificandBits == 53

\* ------------------------------------------------------------ entropy source
\* The entropy source is a stream owned by the platform.  Its hidden state is
\* a position in a cycle of 32-bit words; the starting position is arbitrary.
\* The words cover the extremes of the 32-bit range (0 and 2^32 - 1), two
\* neighbours that differ in the lowest bit, and the residues 6, 6, 7, 0, 1
\* modulo 8 (2, 2, 3, 0, 1 modulo 4; the first word is 62 modulo 63).  The cycle length
\* divides kAutoIdLength, so two calls made one after the other are fed the
\* same sequence of words.
EntropyWords ==
  << [hi |-> 0,     lo |-> 62],
     [hi |-> 65535, lo |-> 65534],
     [hi |-> 65535, lo |-> 65535],
     [hi |-> 0,     lo |-> 0],
     [hi |-> 32768, lo |-> 1] >>

RngStates == 0..(Len(EntropyWords) - 1)

\* arc4random(): the word at the stream position.
Arc4Random(s) == EntropyWords[s + 1]

\* The stream position after one draw.
RngAdvance(s) == (s + 1) % Len(EntropyWords)

\* w mod m for a two-limb word, 0 < m < Limb.
WordMod(w, m) == (((w.hi % m) * (Limb % m)) + w.lo) % m

\* arc4random_uniform(upper_bound): a value in [0, upper_bound).
Arc4RandomUniform(s, upper_bound) == WordMod(Arc4Random(s), upper_bound)

\* -------------------------------------------------------- double arithmetic
RECURSIVE BitLen(_)
BitLen(x) == IF x = 0 THEN 0 ELSE 1 + BitLen(x \div 2)

Pow2(k) == 2 ^ k

WordBitLen(w) == IF w.hi > 0 THEN 16 + BitLen(w.hi) ELSE BitLen(w.lo)

\* Integer-to-floating conversion: round to nearest, ties to even, keeping p
\* significant bits (16 <= p).  Exact when the word has at most p bits.
RoundToSignificand(w, p) ==
  LET d == IF WordBitLen(w) > p THEN WordBitLen(w) - p ELSE 0
  IN  IF d = 0
      THEN [hi |-> w.hi, lo |-> w.lo, exp |-> 0]
      ELSE LET unit == Pow2(d)
               q    == w.lo \div unit
               rem  == w.lo % unit
               half == unit \div 2
               odd  == IF d = 16 THEN w.hi % 2 = 1 ELSE q % 2 = 1
               up   == rem > half \/ (rem = half /\ odd)
               lo2  == (q + (IF up THEN 1 ELSE 0)) * unit
           IN  [hi |-> w.hi + (lo2 \div Limb), lo |-> lo2 % Limb, exp |-> 0]

\* static_cast<float>(n): the cast a narrower type would perform.
ToFloat(n) == RoundToSignificand(n, 24)

\* static_cast<double>(n)
ToDouble(n) == RoundToSignificand(n, kDoubleSignificandBits)

\* x / y for a divisor that is a power of two: exact, only the exponent moves.
DDiv(x, y) ==
  [hi |-> x.hi, lo |-> x.lo, exp |-> x.exp - (y.exp + 16 + (BitLen(y.hi) - 1))]

\* The significand of x in units of 2^e, e <= x.exp.
DScaled(x, e) ==
  IF x.hi = 0 /\ x.lo = 0
  THEN [hi |-> 0, lo |-> 0]
  ELSE LET f == Pow2(x.exp - e)
       IN  [hi |-> (x.hi * f) + ((x.lo * f) \div Limb), lo |-> (x.lo * f) % Limb]

DMinExp(a, b) == IF a.exp < b.exp THEN a.exp ELSE b.exp

DLess(a, b) ==
  LET x == DScaled(a, DMinExp(a, b))
      y == DScaled(b, DMinExp(a, b))
  IN  x.hi < y.hi \/ (x.hi = y.hi /\ x.lo < y.lo)

DEq(a, b) == DScaled(a, DMinExp(a, b)) = DScaled(b, DMinExp(a, b))

DZero == [hi |-> 0, lo |-> 0, exp |-> 0]
DOne == [hi |-> 1, lo |-> 0, exp |-> -16]

\* return static_cast<double>(arc4random()) / kArc4RandomMax;
RandomDoubleOf(n) == DDiv(ToDouble(n), kArc4RandomMax)

\* ------------------------------------------------------------ CreateAutoId
\* sizeof applied to the array of the literal's bytes.
SizeofArray(ps) == Len(kAutoIdAlphabet)

\* sizeof(kAutoIdAlphabet): kAutoIdAlphabet is a const char* const, so this is
\* the size of a pointer on the build.
SizeofAlphabet(ps) == ps

\* kAutoIdAlphabet[rand_index]
AlphabetAt(rand_index) == kAutoIdAlphabet[rand_index + 1]

\* i <= kAutoIdLength
LoopCondInclusive(n) == n <= kAutoIdLength

\* i < kAutoIdLength
LoopCond(n) == n < kAutoIdLength

\* auto_id.insert(0, 1, c)
Prepend(str, c) == <<c>> \o str

\* auto_id.append(1, c)
AppendChar(str, c) == Append(str, c)

\* The string every call would append to if auto_id had static storage.
StoreShared(ids, t, str) == [u \in Threads |-> str]

\* auto_id is a local of the call running in thread t.
StoreLocal(ids, t, str) == [ids EXCEPT ![t] = str]

\* i += 2
IncrementByTwo(n) == n + 2

\* i++
Increment(n) == n + 1

VARIABLES
  rng,          \* position of the process-wide entropy stream
  ptr_size,     \* sizeof(const char*) of this build
  pc,           \* per thread: "idle", "loop", "draw", "returned"
  op,           \* per thread: the function of the current or last call
  i,            \* per thread: CreateAutoId's loop counter
  auto_id,      \* per thread: CreateAutoId's local string
  indexes,      \* per thread: the rand_index values of the current call
  bound,        \* per thread: the upper bound last passed to arc4random_uniform
  drawn,        \* per thread: the word RandomDouble got from arc4random
  draws,        \* per thread: draws from the entropy source in the current call
  ret_id,       \* per thread: the string the last CreateAutoId returned
  ret_double,   \* per thread: the double the last RandomDouble returned
  running,      \* the thread that took the last step
  preemptions   \* times a thread was descheduled in the middle of a call

vars == << rng, ptr_size, pc, op, i, auto_id, indexes, bound, drawn, draws,
           ret_id, ret_double, running, preemptions >>

Init ==
  /\ rng \in RngStates
  /\ ptr_size \in PointerSizes
  /\ pc = [t \in Threads |-> "idle"]
  /\ op = [t \in Threads |-> "none"]
  /\ i = [t \in Threads |-> 0]
  /\ auto_id = [t \in Threads |-> <<>>]
  /\ indexes = [t \in Threads |-> <<>>]
  /\ bound = [t \in Threads |-> 0]
  /\ drawn = [t \in Threads |-> [hi |-> 0, lo |-> 0]]
  /\ draws = [t \in Threads |-> 0]
  /\ ret_id = [t \in Threads |-> <<>>]
  /\ ret_double = [t \in Threads |-> DZero]
  /\ running = 1
  /\ preemptions = 0

InCall(t) == pc[t] \in {"loop", "draw"}

\* Thread t is given the processor: freely when the running thread is between
\* calls, otherwise by descheduling it.
Schedule(t) ==
  /\ running' = t
  /\ IF running = t \/ ~InCall(running)
     THEN UNCHANGED preemptions
     ELSE /\ preemptions < MaxPreemptions
          /\ preemptions' = preemptions + 1

\* Entry of CreateAutoId: std::string auto_id; auto_id.reserve(20); int i = 0
CallCreateAutoId(t) ==
  /\ pc[t] = "idle"
  /\ Schedule(t)
  /\ pc' = [pc EXCEPT ![t] = "loop"]
  /\ op' = [op EXCEPT ![t] = "CreateAutoId"]
  /\ i' = [i EXCEPT ![t] = 0]
  /\ auto_id' = StoreLocal(auto_id, t, <<>>)
  /\ indexes' = [indexes EXCEPT ![t] = <<>>]
  /\ draws' = [draws EXCEPT ![t] = 0]
  /\ UNCHANGED << rng, ptr_size, bound, drawn, ret_id, ret_double >>

\* One iteration of the loop: draw rand_index, append the symbol, i++.
LoopIteration(t) ==
  /\ pc[t] = "loop"
  /\ LoopCond(i[t])
  /\ Schedule(t)
  /\ LET upper_bound == SizeofAlphabet(ptr_size)
         rand_index  == Arc4RandomUniform(rng, upper_bound)
     IN  /\ bound' = [bound EXCEPT ![t] = upper_bound]
         /\ indexes' = [indexes EXCEPT ![t] = Append(@, rand_index)]
         /\ auto_id' = StoreLocal(auto_id, t, AppendChar(auto_id[t], AlphabetAt(rand_index)))
  /\ rng' = RngAdvance(rng)
  /\ draws' = [draws EXCEPT ![t] = @ + 1]
  /\ i' = [i EXCEPT ![t] = Increment(@)]
  /\ UNCHANGED << ptr_size, pc, op, drawn, ret_id, ret_double >>

\* Loop exit: return auto_id;
ReturnAutoId(t) ==
  /\ pc[t] = "loop"
  /\ ~LoopCond(i[t])
  /\ Schedule(t)
  /\ ret_id' = [ret_id EXCEPT ![t] = auto_id[t]]
  /\ pc' = [pc EXCEPT ![t] = "returned"]
  /\ UNCHANGED << rng, ptr_size, op, i, auto_id, indexes, bound, drawn, draws,
                  ret_double >>

\* Entry of RandomDouble.
CallRandomDouble(t) ==
  /\ pc[t] = "idle"
  /\ Schedule(t)
  /\ pc' = [pc EXCEPT ![t] = "draw"]
  /\ op' = [op EXCEPT ![t] = "RandomDouble"]
  /\ draws' = [draws EXCEPT ![t] = 0]
  /\ UNCHANGED << rng, ptr_size, i, auto_id, indexes, bound, drawn, ret_id, ret_double >>

\* return static_cast<double>(arc4random()) / kArc4RandomMax;
ReturnRandomDouble(t) ==
  /\ pc[t] = "draw"
  /\ Schedule(t)
  /\ drawn' = [drawn EXCEPT ![t] = Arc4Random(rng)]
  /\ ret_double' = [ret_double EXCEPT ![t] = RandomDoubleOf(Arc4Random(rng))]
  /\ rng' = RngAdvance(rng)
  /\ draws' = [draws EXCEPT ![t] = @ + 1]
  /\ pc' = [pc EXCEPT ![t] = "returned"]
  /\ UNCHANGED << ptr_size, op, i, auto_id, indexes, bound, ret_id >>

Step(t) ==
  \/ CallCreateAutoId(t)
  \/ LoopIteration(t)
  \/ ReturnAutoId(t)
  \/ CallRandomDouble(t)
  \/ ReturnRandomDouble(t)

Next == \E t \in Threads : Step(t)

Spec == Init /\ [][Next]_vars

\* The liveness specification follows one build and one stream: the 64-bit
\* build, with the stream at its first word.  The threads' schedules are as
\* free as under Spec.
FairInit == Init /\ rng = 0 /\ ptr_size = 8

\* Every thread that can take a step eventually takes one.
FairSpec == FairInit /\ [][Next]_vars /\ \A t \in Threads : WF_vars(Step(t))

\* ------------------------------------------------------------------ claims
\* The alphabet as the specification lists it: A-Z, then a-z, then 0-9.
UpperCase == << "A", "B", "C", "D", "E", "F", "G", "H", "I", "J", "K", "L", "M",
               "N", "O", "P", "Q", "R", "S", "T", "U", "V", "W", "X", "Y", "Z" >>
LowerCase == << "a", "b", "c", "d", "e", "f", "g", "h", "i", "j", "k", "l", "m",
               "n", "o", "p", "q", "r", "s", "t", "u", "v", "w", "x", "y", "z" >>
Digits == << "0", "1", "2", "3", "4", "5", "6", "7", "8", "9" >>

ExpectedSymbol(x) ==
  IF x < 26 THEN UpperCase[x + 1]
  ELSE IF x < 52 THEN LowerCase[x - 25]
  ELSE Digits[x - 51]

SymbolSet == { ExpectedSymbol(x) : x \in 0..61 }

Returned(t, f) == pc[t] = "returned" /\ op[t] = f

Chars(str) == { str[k] : k \in 1..Len(str) }

WordLess(a, b) == a.hi < b.hi \/ (a.hi = b.hi /\ a.lo < b.lo)

LocalsOf(u) == << pc[u], op[u], i[u], auto_id[u], indexes[u], bound[u], drawn[u],
                 draws[u], ret_id[u], ret_double[u] >>

\* C1: every character of every string CreateAutoId returns is one of the 62
\* symbols A-Z, a-z, 0-9; none is the literal's NUL terminator.
C1_CharsInAlphabet ==
  \A t \in Threads :
    Returned(t, "CreateAutoId") =>
      /\ Chars(ret_id[t]) \subseteq SymbolSet
      /\ "NUL" \notin Chars(ret_id[t])

\* A returned identifier that holds the symbol of the largest index the draw
\* can produce on a 64-bit build.
C1_Witness ==
  \E t \in Threads :
    /\ Returned(t, "CreateAutoId")
    /\ Len(ret_id[t]) = 20
    /\ "H" \in Chars(ret_id[t])

\* C2 (as stated): at every position the index draw ranges over exactly
\* [0, 62), so the symbols it can place are all 62 symbols of the alphabet.
C2_DrawCoversAlphabet ==
  \A t \in Threads :
    (op[t] = "CreateAutoId" /\ i[t] > 0) =>
      { AlphabetAt(x) : x \in 0..(bound[t] - 1) } = SymbolSet

\* C3: the string CreateAutoId returns has length exactly 20.
C3_LengthIs20 ==
  \A t \in Threads : Returned(t, "CreateAutoId") => Len(ret_id[t]) = 20

\* A call has returned after the loop ran to its end.
C3_Witness ==
  \E t \in Threads :
    /\ Returned(t, "CreateAutoId")
    /\ i[t] = kAutoIdLength
    /\ ret_id[t] # <<>>

\* C4: the double RandomDouble returns satisfies 0.0 <= r < 1.0.
C4_UnitInterval ==
  \A t \in Threads :
    Returned(t, "RandomDouble") =>
      /\ ~DLess(ret_double[t], DZero)
      /\ DLess(ret_double[t], DOne)

\* RandomDouble has returned after drawing the largest 32-bit value.
C4_Witness ==
  \E t \in Threads :
    /\ Returned(t, "RandomDouble")
    /\ drawn[t] = [hi |-> 65535, lo |-> 65535]

\* C5: RandomDouble returns exactly n / 2^32 for the word n it drew: 0 gives
\* exactly 0.0, and 2^32 - 1 gives (2^32 - 1) / 2^32, the largest result,
\* strictly below 1.0.
C5_ExactQuotient ==
  \A t \in Threads :
    Returned(t, "RandomDouble") =>
      /\ DEq(ret_double[t], [hi |-> drawn[t].hi, lo |-> drawn[t].lo, exp |-> -32])
      /\ (drawn[t] = [hi |-> 0, lo |-> 0] => DEq(ret_double[t], DZero))
      /\ ~DLess([hi |-> 65535, lo |-> 65535, exp |-> -32], ret_double[t])
      /\ DLess([hi |-> 65535, lo |-> 65535, exp |-> -32], DOne)

\* Both extremes have been drawn and returned by RandomDouble.
C5_Witness ==
  \E t, u \in Threads :
    /\ Returned(t, "RandomDouble") /\ drawn[t] = [hi |-> 0, lo |-> 0]
    /\ Returned(u, "RandomDouble") /\ drawn[u] = [hi |-> 65535, lo |-> 65535]
    /\ DEq(ret_double[u], [hi |-> 65535, lo |-> 65535, exp |-> -32])

C6_AlphabetOrder == \A x \in 0..61 : AlphabetAt(x) = ExpectedSymbol(x)

\* C6: the string CreateAutoId returns is determined by the indexes it drew:
\* its k-th character is the symbol the fixed-order alphabet (0 = A, 26 = a,
\* 52 = 0, 61 = 9) has at the k-th index, so calls that drew the same indexes
\* return the same string.
C6_DeterminedByIndexes ==
  /\ C6_AlphabetOrder
  /\ \A t \in Threads :
       Returned(t, "CreateAutoId") =>
         /\ Len(ret_id[t]) = Len(indexes[t])
         /\ \A k \in 1..Len(ret_id[t]) : ret_id[t][k] = ExpectedSymbol(indexes[t][k])
  /\ \A t, u \in Threads :
       (Returned(t, "CreateAutoId") /\ Returned(u, "CreateAutoId")
          /\ indexes[t] = indexes[u]) => ret_id[t] = ret_id[u]

\* Two calls, the second begun after the first returned, drew the same
\* sequence of indexes, and the sequence is not constant.
C6_Witness ==
  \E t, u \in Threads :
    /\ t # u
    /\ Returned(t, "CreateAutoId") /\ Returned(u, "CreateAutoId")
    /\ indexes[t] = indexes[u]
    /\ Len(indexes[t]) = 20
    /\ indexes[t][1] # indexes[t][2]

C7_WellFormed ==
  \A t \in Threads :
    /\ Returned(t, "CreateAutoId") =>
         (Len(ret_id[t]) = 20 /\ Chars(ret_id[t]) \subseteq SymbolSet)
    /\ Returned(t, "RandomDouble") =>
         (~DLess(ret_double[t], DZero) /\ DLess(ret_double[t], DOne))

C7_NoInterference ==
  \A t \in Threads :
    Step(t) => \A u \in Threads \ {t} : LocalsOf(u)' = LocalsOf(u)

\* C7: under any interleaving of the threads' draws every call returns a
\* well-formed result, and a step of one call neither reads nor writes the
\* locals of a call in another thread.
C7_ConcurrentCalls == []C7_WellFormed /\ [][C7_NoInterference]_vars

\* The indexes a call of 20 draws gets when no other draw comes in between.
Uninterrupted(s, upper_bound) ==
  [k \in 1..20 |-> WordMod(EntropyWords[((s + k - 1) % Len(EntropyWords)) + 1], upper_bound)]

\* Two calls have returned, and the indexes one of them drew are no contiguous
\* run of the stream: another thread drew in the middle of its loop.
C7_Witness ==
  \E t, u \in Threads :
    /\ t # u
    /\ Returned(t, "CreateAutoId")
    /\ pc[u] = "returned"
    /\ Len(indexes[t]) = 20
    /\ \A s \in RngStates : indexes[t] # Uninterrupted(s, bound[t])

\* C8: RandomDouble keeps all 32 bits of its draw: a smaller word gives a
\* strictly smaller result, so different words never give the same result.
C8_StrictlyIncreasing ==
  \A t, u \in Threads :
    (Returned(t, "RandomDouble") /\ Returned(u, "RandomDouble")) =>
      /\ WordLess(drawn[t], drawn[u]) => DLess(ret_double[t], ret_double[u])
      /\ drawn[t] # drawn[u] => ~DEq(ret_double[t], ret_double[u])

\* Two calls returned after drawing words that differ only in the lowest bit.
C8_Witness ==
  \E t, u \in Threads :
    /\ Returned(t, "RandomDouble") /\ drawn[t] = [hi |-> 65535, lo |-> 65534]
    /\ Returned(u, "RandomDouble") /\ drawn[u] = [hi |-> 65535, lo |-> 65535]

\* C9 (as stated): the upper bound passed to the index draw is the alphabet's
\* character count, 62, and every index read is in 0..61.
C9_BoundIsCharacterCount ==
  \A t \in Threads :
    (op[t] = "CreateAutoId" /\ i[t] > 0) =>
      /\ bound[t] = 62
      /\ \A k \in 1..Len(indexes[t]) : indexes[t][k] \in 0..61

C10_Counts ==
  \A t \in Threads :
    /\ op[t] = "CreateAutoId" =>
         /\ i[t] <= 20
         /\ Len(auto_id[t]) = i[t]
         /\ draws[t] = i[t]
         /\ pc[t] = "returned" => (i[t] = 20 /\ Len(ret_id[t]) = i[t])
    /\ op[t] = "RandomDouble" =>
         draws[t] = (IF pc[t] = "returned" THEN 1 ELSE 0)

\* C10: a call of CreateAutoId returns after exactly 20 iterations, each with
\* one draw and one appended character; a call of RandomDouble returns after
\* exactly one draw; every call that has begun returns.
C10_Terminates ==
  /\ []C10_Counts
  /\ \A t \in Threads : InCall(t) ~> (pc[t] = "returned")

\* A call has returned after 20 iterations and 20 draws.
C10_Witness ==
  \E t \in Threads :
    /\ Returned(t, "CreateAutoId")
    /\ draws[t] = 20
    /\ i[t] = 20

====
